---- MODULE Spec2Model ----
(***************************************************************************)
(* SquareCut (src/App.tsx): the App component's state, its event handlers  *)
(* (onFileChange, reset, handleAutoCrop) and the asynchronous completions  *)
(* they leave pending (FileReader.onload, the two awaits of                *)
(* handleAutoCrop).  Every handler and every continuation runs to          *)
(* completion on the single JavaScript thread, so each is one action.      *)
(***************************************************************************)
EXTENDS Integers, FiniteSets, Sequences, TLC

VARIABLES
    disk,          \* the files the user can pick in the file dialog
    imageSrc,      \* useState<string | null>: the data URL of the source
    croppedImage,  \* useState<string | null>: the data URL of the result
    isProcessing,  \* useState(false)
    error,         \* useState<string | null>
    reads,         \* FileReader reads started and not yet completed
    runs,          \* handleAutoCrop calls suspended at one of their awaits
    finished,      \* history: the handleAutoCrop calls that have returned
    nextSel,       \* history: number of the next file selection
    nextRun,       \* history: number of the next handleAutoCrop call
    resetDone,     \* history: reset() has been called at least once
    afterReset,    \* history: reset() was called and no file selected since
    downloaded     \* history: href of the last link downloadImage clicked

vars == <<disk, imageSrc, croppedImage, isProcessing, error, reads, runs,
          finished, nextSel, nextRun, resetDone, afterReset, downloaded>>

----------------------------------------------------------------------------
(* Bounds *)

MaxDim == 3
MaxSelects == 3
MaxRuns == 2

----------------------------------------------------------------------------
(* Values *)

Null == [null |-> TRUE]

ErrorMessage == [message |-> "Failed to process image. Please try another one."]

\* A JavaScript number whose value is an integer divided by a power of two
\* (exact in a double at these magnitudes): num / den in lowest terms.
RECURSIVE Norm(_, _)
Norm(n, d) ==
    IF d > 1 /\ n % 2 = 0 THEN Norm(n \div 2, d \div 2)
    ELSE [num |-> n, den |-> d]

Num(n) == [num |-> n, den |-> 1]

Minus(a, b) == Norm(a.num * b.den - b.num * a.den, a.den * b.den)

Plus(a, b) == Norm(a.num * b.den + b.num * a.den, a.den * b.den)

\* the JavaScript operator / with a numeric literal divisor k (a power of two)
Div(a, k) == Norm(a.num, a.den * k)

Leq(a, b) == a.num * b.den <= b.num * a.den

IsWhole(a) == a.den = 1

\* the images of the end-to-end scenarios
ScenarioDims == {<<400, 800>>, <<800, 400>>, <<500, 500>>, <<401, 800>>}

Dims == ((1..MaxDim) \X (1..MaxDim)) \cup ScenarioDims

ImageFile(d) == [valid |-> TRUE, width |-> d[1], height |-> d[2]]

CorruptFile == [valid |-> FALSE, width |-> 0, height |-> 0]

----------------------------------------------------------------------------
(* utils/imageUtils *)

\* createImage(url): resolves with the decoded image, rejects on a source
\* the decoder does not accept.
createImageResolves(src) == src.file.valid

createImage(src) == [width |-> src.file.width, height |-> src.file.height]

getMinSideLength(img) ==
    IF img.width <= img.height THEN img.width ELSE img.height

\* getCroppedImg(imageSrc, pixelCrop): the encoded surface, which has the
\* size of the region and is drawn from the given source.
getCroppedImg(src, pixelCrop) == [from |-> src, crop |-> pixelCrop]

----------------------------------------------------------------------------
(* App *)

Init ==
    /\ \E d \in Dims : disk = {ImageFile(d), CorruptFile}
    /\ imageSrc = Null
    /\ croppedImage = Null
    /\ isProcessing = FALSE
    /\ error = Null
    /\ reads = {}
    /\ runs = {}
    /\ finished = {}
    /\ nextSel = 1
    /\ nextRun = 1
    /\ resetDone = FALSE
    /\ afterReset = FALSE
    /\ downloaded = Null

\* The <input type="file"> is rendered only in the upload state.
FileInputMounted == imageSrc = Null

\* the crop button without its disabled={isProcessing}
CropButtonNeverDisabled ==
    /\ imageSrc # Null
    /\ croppedImage = Null

\* The crop button is rendered when there is a source and no result, and
\* is disabled while processing.
CropButtonEnabled ==
    /\ imageSrc # Null
    /\ croppedImage = Null
    /\ ~isProcessing

\* the cancel button without its disabled={isProcessing}
ResetButtonNeverDisabled ==
    imageSrc # Null

\* "Pick another image" (result view) and "cancel" (disabled while
\* processing) both call reset.
ResetButtonEnabled ==
    /\ imageSrc # Null
    /\ \/ croppedImage # Null
       \/ croppedImage = Null /\ ~isProcessing

\* The download button is rendered in the result view.
DownloadButtonShown ==
    /\ imageSrc # Null
    /\ croppedImage # Null

\* onFileChange: starts a FileReader on the chosen file.
OnFileChange ==
    /\ FileInputMounted
    /\ nextSel <= MaxSelects
    /\ \E f \in disk :
          reads' = reads \cup {[id |-> nextSel, file |-> f]}
    /\ nextSel' = nextSel + 1
    /\ afterReset' = FALSE
    /\ UNCHANGED <<disk, downloaded,
                   imageSrc, croppedImage, isProcessing, error, runs,
                   finished, nextRun, resetDone>>

\* reader.onload without setError(null)
ReaderOnLoadKeepsError ==
    \E rd \in reads :
        /\ reads' = reads \ {rd}
        /\ imageSrc' = rd
        /\ croppedImage' = Null
        /\ UNCHANGED <<disk, downloaded, isProcessing, error, runs, finished,
                       nextSel, nextRun, resetDone, afterReset>>

\* reader.onload of one pending read; reads complete in any order.
ReaderOnLoad ==
    \E rd \in reads :
        /\ reads' = reads \ {rd}
        /\ imageSrc' = rd
        /\ croppedImage' = Null
        /\ error' = Null
        /\ UNCHANGED <<disk, downloaded,
                       isProcessing, runs, finished, nextSel, nextRun,
                       resetDone, afterReset>>

Reset ==
    /\ ResetButtonEnabled
    /\ imageSrc' = Null
    /\ croppedImage' = Null
    /\ error' = Null
    /\ resetDone' = TRUE
    /\ afterReset' = TRUE
    /\ UNCHANGED <<disk, downloaded,
                   isProcessing, reads, runs, finished, nextSel,
                   nextRun>>

\* downloadImage: a link to the result is clicked
DownloadImage ==
    /\ DownloadButtonShown
    /\ croppedImage # Null         \* if (!croppedImage) return;
    /\ downloaded' = croppedImage
    /\ UNCHANGED <<disk, imageSrc, croppedImage, isProcessing, error, reads,
                   runs, finished, nextSel, nextRun, resetDone, afterReset>>

\* PixelCrop with width taken from the image instead of minSide
PixelCropImageWidth(img) ==
    LET minSide == getMinSideLength(img)
        startX  == Div(Minus(Num(img.width), Num(minSide)), 2)
        startY  == Div(Minus(Num(img.height), Num(minSide)), 2)
    IN  [x |-> startX, y |-> startY,
         width |-> Num(img.width), height |-> Num(minSide)]

\* PixelCrop starting at the centre of the image instead of centring the square
PixelCropFromCentre(img) ==
    LET minSide == getMinSideLength(img)
        startX  == Div(Num(img.width), 2)
        startY  == Div(Num(img.height), 2)
    IN  [x |-> startX, y |-> startY,
         width |-> Num(minSide), height |-> Num(minSide)]

\* PixelCrop without the division of the surplus by two
PixelCropNoHalving(img) ==
    LET minSide == getMinSideLength(img)
        startX  == Minus(Num(img.width), Num(minSide))
        startY  == Minus(Num(img.height), Num(minSide))
    IN  [x |-> startX, y |-> startY,
         width |-> Num(minSide), height |-> Num(minSide)]

\* pixelCrop as handleAutoCrop builds it from the decoded image
PixelCrop(img) ==
    LET minSide == getMinSideLength(img)
        startX  == Div(Minus(Num(img.width), Num(minSide)), 2)
        startY  == Div(Minus(Num(img.height), Num(minSide)), 2)
    IN  [x |-> startX, y |-> startY,
         width |-> Num(minSide), height |-> Num(minSide)]

\* handleAutoCrop up to its first await
HandleAutoCrop ==
    /\ CropButtonEnabled
    /\ nextRun <= MaxRuns
    /\ imageSrc # Null             \* if (!imageSrc) return;
    /\ isProcessing' = TRUE
    /\ runs' = runs \cup {[id |-> nextRun, src |-> imageSrc,
                           pc |-> "createImage", img |-> Null,
                           pixelCrop |-> Null,
                           stages |-> <<"Loading">>]}
    /\ nextRun' = nextRun + 1
    /\ UNCHANGED <<disk, downloaded,
                   imageSrc, croppedImage, error, reads, finished,
                   nextSel, resetDone, afterReset>>

\* the record kept of a handleAutoCrop call that has returned: "Done" after
\* setCroppedImage, "Failed" after the catch block
Finished(r, decoded, rendered) ==
    [id |-> r.id, src |-> r.src, decoded |-> decoded, rendered |-> rendered,
     stages |-> Append(r.stages,
                       IF decoded /\ rendered THEN "Done" ELSE "Failed")]

\* createImage resolved: the region is computed and getCroppedImg awaited
CreateImageResolved ==
    \E r \in runs :
        /\ r.pc = "createImage"
        /\ createImageResolves(r.src)
        /\ LET img == createImage(r.src)
           IN  runs' = (runs \ {r}) \cup
                           {[r EXCEPT !.pc = "getCroppedImg", !.img = img,
                                      !.pixelCrop = PixelCrop(img),
                                      !.stages = @ \o <<"Planning",
                                                        "Rendering">>]}
        /\ UNCHANGED <<disk, downloaded,
                       imageSrc, croppedImage, isProcessing, error,
                       reads, finished, nextSel, nextRun, resetDone,
                       afterReset>>

\* createImage rejected, with the rejection swallowed and the run going on
\* to getCroppedImg without an image
CreateImageRejectedGoesOn ==
    \E r \in runs :
        /\ r.pc = "createImage"
        /\ ~createImageResolves(r.src)
        /\ runs' = (runs \ {r}) \cup
                        {[r EXCEPT !.pc = "getCroppedImg",
                                   !.stages = @ \o <<"Planning",
                                                     "Rendering">>]}
        /\ UNCHANGED <<disk, downloaded,
                       imageSrc, croppedImage, isProcessing, error,
                       reads, finished, nextSel, nextRun, resetDone,
                       afterReset>>

\* createImage rejected: catch and finally
CreateImageRejected ==
    \E r \in runs :
        /\ r.pc = "createImage"
        /\ ~createImageResolves(r.src)
        /\ runs' = runs \ {r}
        /\ error' = ErrorMessage
        /\ isProcessing' = FALSE
        /\ finished' = finished \cup {Finished(r, FALSE, FALSE)}
        /\ UNCHANGED <<disk, downloaded,
                       imageSrc, croppedImage, reads, nextSel, nextRun,
                       resetDone, afterReset>>

\* getCroppedImg resolved: setCroppedImage and finally
GetCroppedImgResolved ==
    \E r \in runs :
        /\ r.pc = "getCroppedImg"
        /\ runs' = runs \ {r}
        /\ croppedImage' = getCroppedImg(r.src, r.pixelCrop)
        /\ isProcessing' = FALSE
        /\ finished' = finished \cup {Finished(r, TRUE, TRUE)}
        /\ UNCHANGED <<disk, downloaded,
                       imageSrc, error, reads, nextSel, nextRun,
                       resetDone, afterReset>>

\* getCroppedImg rejected, with the result stored on the failure path too
GetCroppedImgRejectedStoresResult ==
    \E r \in runs :
        /\ r.pc = "getCroppedImg"
        /\ runs' = runs \ {r}
        /\ croppedImage' = getCroppedImg(r.src, r.pixelCrop)
        /\ error' = ErrorMessage
        /\ isProcessing' = FALSE
        /\ finished' = finished \cup {Finished(r, TRUE, FALSE)}
        /\ UNCHANGED <<disk, downloaded, imageSrc, reads, nextSel, nextRun,
                       resetDone, afterReset>>

\* getCroppedImg rejected, with setIsProcessing(false) on the success path
\* only instead of in a finally block
GetCroppedImgRejectedNoFinally ==
    \E r \in runs :
        /\ r.pc = "getCroppedImg"
        /\ runs' = runs \ {r}
        /\ error' = ErrorMessage
        /\ finished' = finished \cup {Finished(r, TRUE, FALSE)}
        /\ UNCHANGED <<disk, downloaded,
                       imageSrc, croppedImage, isProcessing, reads,
                       nextSel, nextRun, resetDone, afterReset>>

\* getCroppedImg rejected: catch and finally
GetCroppedImgRejected ==
    \E r \in runs :
        /\ r.pc = "getCroppedImg"
        /\ runs' = runs \ {r}
        /\ error' = ErrorMessage
        /\ isProcessing' = FALSE
        /\ finished' = finished \cup {Finished(r, TRUE, FALSE)}
        /\ UNCHANGED <<disk, downloaded,
                       imageSrc, croppedImage, reads, nextSel, nextRun,
                       resetDone, afterReset>>

Next ==
    \/ OnFileChange
    \/ ReaderOnLoad
    \/ Reset
    \/ DownloadImage
    \/ HandleAutoCrop
    \/ CreateImageResolved
    \/ CreateImageRejected
    \/ GetCroppedImgResolved
    \/ GetCroppedImgRejected

Spec == Init /\ [][Next]_vars

\* One disk, for the properties of behaviours.
LiveInit ==
    /\ Init
    /\ disk = {ImageFile(<<400, 800>>), CorruptFile}

\* The promise of createImage and the promise of getCroppedImg each settle:
\* the continuation of a suspended handleAutoCrop is eventually run.
Settle ==
    /\ WF_vars(CreateImageResolved \/ CreateImageRejected)
    /\ WF_vars(GetCroppedImgResolved \/ GetCroppedImgRejected)

LiveSpec == LiveInit /\ [][Next]_vars /\ Settle

----------------------------------------------------------------------------
(* The crop region *)

\* the runs whose crop region has been built (suspended in getCroppedImg)
Planned == {r \in runs : r.pc = "getCroppedImg"}

\* C1: for every decoded image (w > 0, h > 0) the region built by
\* handleAutoCrop is a square whose side is the shorter of w and h, and a
\* result that is stored has that side.
C1_SquareOfShorterSide ==
    /\ \A r \in Planned :
          /\ r.img.width > 0 /\ r.img.height > 0
          /\ r.pixelCrop.width = r.pixelCrop.height
          /\ IsWhole(r.pixelCrop.width)
          /\ r.pixelCrop.width.num <= r.img.width
          /\ r.pixelCrop.width.num <= r.img.height
          /\ r.pixelCrop.width.num \in {r.img.width, r.img.height}
    /\ croppedImage # Null =>
          /\ croppedImage.crop.width = croppedImage.crop.height
          /\ croppedImage.crop.width.num <= croppedImage.from.file.width
          /\ croppedImage.crop.width.num <= croppedImage.from.file.height
          /\ croppedImage.crop.width.num \in
                 {croppedImage.from.file.width, croppedImage.from.file.height}

\* C1 witness: a region has been built for an image that is not square
C1_Witness ==
    \E r \in Planned :
        /\ r.img.width > r.img.height
        /\ r.pixelCrop.width = Num(r.img.height)

\* C2: the region built by handleAutoCrop lies within the image:
\* 0 <= x, 0 <= y, x + width <= w, y + height <= h.
C2_WithinSourceBounds ==
    \A r \in Planned :
        /\ Leq(Num(0), r.pixelCrop.x)
        /\ Leq(Num(0), r.pixelCrop.y)
        /\ Leq(Plus(r.pixelCrop.x, r.pixelCrop.width), Num(r.img.width))
        /\ Leq(Plus(r.pixelCrop.y, r.pixelCrop.height), Num(r.img.height))

\* C2 witness: a region with a positive offset has been built
C2_Witness ==
    \E r \in Planned :
        /\ r.img.width < r.img.height
        /\ ~Leq(r.pixelCrop.y, Num(0))

\* C3: the region is centred: the margin before it equals the margin after
\* it on both axes, the offset along the shorter axis is 0, and the
\* scenario images give the regions the specification lists.
C3_Centred ==
    \A r \in Planned :
        LET c == r.pixelCrop
            w == r.img.width
            h == r.img.height
        IN  /\ c.x = Minus(Num(w), Plus(c.x, c.width))
            /\ c.y = Minus(Num(h), Plus(c.y, c.height))
            /\ w <= h => c.x = Num(0)
            /\ h <= w => c.y = Num(0)
            /\ w = h => c = [x |-> Num(0), y |-> Num(0),
                            width |-> Num(w), height |-> Num(h)]
            /\ (w = 400 /\ h = 800) =>
                   c = [x |-> Num(0), y |-> Num(200),
                        width |-> Num(400), height |-> Num(400)]
            /\ (w = 800 /\ h = 400) =>
                   c = [x |-> Num(200), y |-> Num(0),
                        width |-> Num(400), height |-> Num(400)]

\* C3 witness: the region of the 800x400 scenario has been built
C3_Witness ==
    \E r \in Planned :
        /\ r.img.width = 800 /\ r.img.height = 400
        /\ r.pixelCrop.x = Num(200)

\* C4: the offsets of every region are whole pixels, and the 401x800 image
\* gets x = 0 and y = 199 or y = 200.
C4_WholePixelOffset ==
    \A r \in Planned :
        /\ IsWhole(r.pixelCrop.x)
        /\ IsWhole(r.pixelCrop.y)
        /\ (r.img.width = 401 /\ r.img.height = 800) =>
               /\ r.pixelCrop.x = Num(0)
               /\ r.pixelCrop.y \in {Num(199), Num(200)}

----------------------------------------------------------------------------
(* Sources, runs and results *)

\* C5: a stored result was produced from the source currently held in
\* imageSrc; a run whose source has been replaced never stores its result.
C5_ResultFromCurrentSource ==
    croppedImage # Null =>
        /\ imageSrc # Null
        /\ croppedImage.from.file = imageSrc.file

\* C6: the most recent selection wins: once every pending read has
\* completed, and reset was never called, imageSrc holds the data of the
\* file selected last.
C6_LatestSelectionWins ==
    (reads = {} /\ nextSel > 1 /\ ~resetDone) =>
        /\ imageSrc # Null
        /\ imageSrc.id = nextSel - 1

\* C7: croppedImage is set only by a run in which createImage and
\* getCroppedImg both succeeded, to the result of that run; a run in which
\* either fails sets the error message and leaves croppedImage alone; a
\* result is never produced from a corrupt source.
C7_AllOrNothing ==
    [][ /\ (croppedImage' # croppedImage /\ croppedImage' # Null) =>
               \E r \in runs :
                   /\ r \notin runs'
                   /\ r.pc = "getCroppedImg"
                   /\ createImageResolves(r.src)
                   /\ croppedImage' = getCroppedImg(r.src, r.pixelCrop)
                   /\ finished' \ finished = {Finished(r, TRUE, TRUE)}
        /\ \A f \in finished' \ finished :
               ~(f.decoded /\ f.rendered) =>
                   /\ error' = ErrorMessage
                   /\ croppedImage' = croppedImage
        /\ croppedImage' # Null => croppedImage'.from.file.valid
      ]_vars

\* C7 witness: one run has failed in createImage and another in
\* getCroppedImg; the error is shown and there is no result
C7_Witness ==
    /\ \E f \in finished : ~f.decoded
    /\ \E f \in finished : f.decoded /\ ~f.rendered
    /\ error = ErrorMessage
    /\ croppedImage = Null

\* C8: while the error of a failed run is set (no reset, no new source
\* since the failure) no crop run starts.
C8_FailedIsTerminal ==
    [][error # Null => nextRun' = nextRun]_vars

\* C9: at most one crop run is in flight at any time.
C9_AtMostOneRun ==
    Cardinality(runs) <= 1

\* C9 witness: a run is in flight for a source that a file read completing
\* meanwhile has replaced, and another read is still pending
C9_Witness ==
    /\ reads # {}
    /\ \E r \in runs : imageSrc # Null /\ imageSrc # r.src

\* C10: after a reset and until the next file selection, imageSrc,
\* croppedImage and error stay null.
C10_ResetCancels ==
    afterReset =>
        /\ imageSrc = Null
        /\ croppedImage = Null
        /\ error = Null

----------------------------------------------------------------------------
(* Stages of a run *)

IsPrefix(a, b) ==
    /\ Len(a) <= Len(b)
    /\ \A i \in 1..Len(a) : a[i] = b[i]

\* C11: the stages of a run are Loading, Planning, Rendering, Done in that
\* order; Rendering is reached only with the image loaded and the region
\* planned from that image; Failed follows Loading or Rendering, never
\* Planning; a run that is Done or Failed executes nothing more.
C11_StagesSequential ==
    [][ /\ \A r \in runs' :
               /\ IsPrefix(r.stages, <<"Loading", "Planning", "Rendering">>)
               /\ r.stages # <<"Loading", "Planning">>
               /\ r.stages[Len(r.stages)] = "Rendering" =>
                      /\ createImageResolves(r.src)
                      /\ r.img = createImage(r.src)
                      /\ r.pixelCrop = PixelCrop(r.img)
               /\ \A q \in runs : q.id = r.id => IsPrefix(q.stages, r.stages)
        /\ \A f \in finished' :
               /\ f.stages \in {<<"Loading", "Failed">>,
                                <<"Loading", "Planning", "Rendering", "Failed">>,
                                <<"Loading", "Planning", "Rendering", "Done">>}
               /\ Len(f.stages) > 2 => f.decoded /\ createImageResolves(f.src)
               /\ \A r \in runs' : r.id # f.id
        /\ \A f \in finished' \ finished :
               \E r \in runs : r.id = f.id /\ IsPrefix(r.stages, f.stages)
        /\ finished \subseteq finished'
      ]_vars

\* C11 witness: one run is Done and a later one is in Rendering
C11_Witness ==
    /\ \E f \in finished : f.stages[Len(f.stages)] = "Done"
    /\ \E r \in runs : r.stages = <<"Loading", "Planning", "Rendering">>

----------------------------------------------------------------------------
(* Termination of a run *)

\* C12: provided createImage and getCroppedImg settle, every run that
\* starts returns; when it returns isProcessing is false, and the run has
\* set croppedImage (success) or error (either failure).
C12_RunsFinish ==
    /\ \A id \in 1..MaxRuns :
           (\E r \in runs : r.id = id) ~>
               (~isProcessing /\ \E f \in finished : f.id = id)
    /\ isProcessing ~> ~isProcessing
    /\ [][\A f \in finished' \ finished :
              /\ ~isProcessing'
              /\ (f.decoded /\ f.rendered) =>
                     /\ croppedImage' # Null
                     /\ croppedImage'.from = f.src
              /\ ~(f.decoded /\ f.rendered) => error' = ErrorMessage
         ]_vars

\* C12 witness: one run has returned on the path of a rejected
\* getCroppedImg and a later one on the success path
C12_Witness ==
    /\ ~isProcessing
    /\ runs = {}
    /\ \E f \in finished :
           f.decoded /\ ~f.rendered
    /\ \E f \in finished :
           /\ f.decoded /\ f.rendered
           /\ croppedImage # Null /\ croppedImage.from = f.src

----------------------------------------------------------------------------
(* What is shown *)

\* C13: the error message and a result are never shown together: error and
\* croppedImage are not both non-null.
C13_ErrorOrResult ==
    ~(error # Null /\ croppedImage # Null)

\* C14: a result is stored only while a source is held (croppedImage
\* non-null implies imageSrc non-null), and reset is not enabled while a
\* crop run is in flight.
C14_ResultHasSource ==
    /\ croppedImage # Null => imageSrc # Null
    /\ runs # {} => ~ResetButtonEnabled

\* C14 witness: a result has been stored after an earlier reset, and a file
\* read is still pending
C14_Witness ==
    /\ croppedImage # Null
    /\ imageSrc # Null
    /\ resetDone
    /\ reads # {}

----------------------------------------------------------------------------
(* Effects of the handlers *)

\* C15: a completed file read sets imageSrc to the data read and sets
\* croppedImage and error to null; reset sets imageSrc, croppedImage and
\* error to null; both leave isProcessing unchanged; downloadImage changes
\* none of imageSrc, croppedImage, error, isProcessing, and a link is
\* clicked only when croppedImage is non-null.
C15_HandlerEffects ==
    [][ /\ ReaderOnLoad =>
               /\ \E rd \in reads : rd \notin reads' /\ imageSrc' = rd
               /\ croppedImage' = Null
               /\ error' = Null
               /\ isProcessing' = isProcessing
        /\ Reset =>
               /\ imageSrc' = Null
               /\ croppedImage' = Null
               /\ error' = Null
               /\ isProcessing' = isProcessing
        /\ DownloadImage =>
               UNCHANGED <<imageSrc, croppedImage, error, isProcessing>>
        /\ downloaded' # downloaded =>
               /\ croppedImage # Null
               /\ downloaded' = croppedImage
               /\ UNCHANGED <<imageSrc, croppedImage, error, isProcessing>>
      ]_vars

\* C15 witness: a result was downloaded, reset was called, and a file read
\* has completed during a later run, replacing the source with an error-free
\* state while isProcessing is still true
C15_Witness ==
    /\ downloaded # Null
    /\ resetDone
    /\ isProcessing
    /\ croppedImage = Null /\ error = Null
    /\ \E r \in runs : imageSrc # Null /\ imageSrc # r.src

====
